---------------------------- MODULE Spec2Model ----------------------------
(***************************************************************************)
(* bluez-alsa (validmfg fork): the ALSA ioplug PCM proxy                   *)
(* (src/asound/bluealsa-pcm-proxy.c) and the device-monitor client library *)
(* (src/bluealsalib/bluealsa.c).                                           *)
(*                                                                         *)
(* Two specifications share this module:                                   *)
(*   Spec     - one PCM stream: the plug-in callbacks, the I/O worker      *)
(*              thread (io_thread) and the environment (daemon, remote     *)
(*              link, FIFO);                                               *)
(*   FairSpec - Spec with weak fairness on the worker thread's steps (a    *)
(*              runnable thread is eventually scheduled);                  *)
(*   MonSpec  - one device monitor handle: bluezalsa_set_device,           *)
(*              bluezalsa_readi, the monitor thread and the daemon.        *)
(*                                                                         *)
(* The host sound stack (alsa-lib's ioplug layer) and the daemon are       *)
(* external collaborators; the callbacks are called in the order the host  *)
(* allows (Open -> hw_params -> prepare -> start ...), and the host's own  *)
(* writes of io->state are part of the callback's action.                  *)
(***************************************************************************)
EXTENDS Integers, FiniteSets, Sequences, TLC

----------------------------------------------------------------------------
(* Bounds of the model                                                     *)

\* snd_pcm_uframes_t is narrowed to WordBits bits: (snd_pcm_uframes_t)-1 is
\* 2^WordBits - 1 and unsigned arithmetic wraps modulo 2^WordBits.
WordBits == 4

\* hw_boundary handed to sw_params is buffer_size * BoundaryMul (alsa-lib
\* hands out buffer_size times a power of two).
BoundaryMul == 2

\* Unread progress units on the stream's event_fd are counted up to
\* MaxProgress and saturate there.
MaxProgress == 1

\* Descriptor numbers the process can hold besides 0, 1, 2.
MaxFds == 3

----------------------------------------------------------------------------
(* Program constants                                                       *)

\* 0xDEAD0000 >> 16: the sentinel written by io_thread and the mask tested by
\* bluealsa_proxy_poll_revents, as the upper 16-bit half of a 32-bit word.
SENTINEL_HI == 57005

\* the lower half of the event counter carries into the upper half here
HalfWord == 2^16

UMod == 2^WordBits

\* (snd_pcm_uframes_t)-1, the value io_thread stores in io_ptr on under-run
InvalidPtr == UMod - 1

\* descriptor numbers after stdin, stdout, stderr
Fds == 3 .. (MaxFds + 2)

\* <<period_size, buffer_size>> in frames, as accepted by the constraints
\* (at least 2 periods per buffer; a buffer may hold a fractional number of
\* periods).
HwConfigs == { <<2, 4>>, <<2, 5>> }

----------------------------------------------------------------------------
VARIABLES
    \* ---- struct bluealsa_pcm and its snd_pcm_ioplug_t ----
    life,           \* "None" | "Open" | "Failed" | "Closed" | "Crashed"
    stream,         \* io->stream: "PLAYBACK" | "CAPTURE"
    io_state,       \* io->state
    fd,             \* pcm->fd: daemon socket, -1 when none
    event_fd,       \* pcm->event_fd descriptor number
    pcm_fd,         \* pcm->pcm_fd: transport FIFO, -1 when detached
    transport,      \* pcm->transport != NULL
    io_ptr,         \* pcm->io_ptr (published)
    io_hw_ptr,      \* pcm->io_hw_ptr (published)
    io_hw_boundary, \* pcm->io_hw_boundary
    buffer_size,    \* io->buffer_size
    period_size,    \* io->period_size
    appl_ptr,       \* io->appl_ptr
    io_started,     \* pcm->io_started
    the_pcm,        \* the_pcm != NULL
    \* ---- the process ----
    openfds,        \* descriptor numbers open in the process
    ev,             \* event_fd's counter: [hi |-> bits 16.., lo |-> bits 0..15]
    \* ---- io_thread ----
    nworkers,       \* worker threads created and not yet terminated
    wpc,            \* the worker's position
    joined,         \* pcm->io_thread has been joined (its id is dead)
    sigpending,     \* SIGIO pending on the worker thread
    w_io_ptr,       \* io_thread local io_ptr
    w_hw_ptr,       \* io_thread local io_hw_ptr
    w_frames,       \* io_thread local frames
    w_len,          \* io_thread local len, in frames: what is left to move
    w_base,         \* frame index of io_thread's local buffer pointer
    w_buffer_size,  \* io_thread local io_buffer_size
    w_hw_boundary,  \* io_thread local io_hw_boundary
    w_period,       \* io->period_size as io_thread read it
    \* ---- environment ----
    link_up,        \* the daemon has the requested transport
    dsock_hup,      \* the peer of pcm->fd has hung up
    fifo_hup,       \* the peer of pcm->pcm_fd has hung up
    \* ---- observations ----
    obs,            \* what the worker has done so far (see Obs0)
    dev,            \* pcm->addr, type, profile, interface (see Dev0)
    \* ---- device monitor (struct bluezalsa_handle) ----
    mon,
    \* ---- the process ----
    pcms,           \* the streams of the process and the_pcm (see Pcms0)
    evc             \* an event_fd counter nobody caps (see Evc0)

pcmvars == << life, stream, io_state, fd, event_fd, pcm_fd, transport,
              io_ptr, io_hw_ptr, io_hw_boundary, buffer_size, period_size,
              appl_ptr, io_started, the_pcm, openfds, ev, nworkers, wpc,
              joined, sigpending, w_io_ptr, w_hw_ptr, w_frames, w_len, w_base,
              w_buffer_size, w_hw_boundary, w_period, link_up, dsock_hup, fifo_hup,
              obs, dev >>

procvars == << pcms, evc >>

vars == << pcmvars, mon, procvars >>

cfgvars  == << stream, buffer_size, period_size, io_hw_boundary >>
connvars == << fd, pcm_fd, transport, openfds, dsock_hup, fifo_hup >>
ptrvars  == << io_ptr, io_hw_ptr >>
wlocals  == << w_io_ptr, w_hw_ptr, w_frames, w_len, w_base, w_buffer_size,
              w_hw_boundary, w_period >>
thrvars  == << nworkers, wpc, joined, sigpending >>
envvars  == << link_up >>

----------------------------------------------------------------------------
(* Helpers                                                                 *)

Min(a, b) == IF a < b THEN a ELSE b

RECURSIVE BitAnd(_, _)
BitAnd(a, b) ==
    IF a = 0 \/ b = 0 THEN 0
    ELSE (a % 2) * (b % 2) + 2 * BitAnd(a \div 2, b \div 2)

\* open(2), socket(2), eventfd(2): the lowest free descriptor number, -1 when
\* the table is full.
NewFd(open) ==
    IF Fds \ open = {} THEN -1
    ELSE CHOOSE n \in Fds \ open : \A m \in Fds \ open : n <= m

\* close(2): closing -1 or a number that is not open changes nothing.
CloseFd(open, n) == open \ {n}

\* eventfd counter value hi * 2^16 + lo
EvZero == [hi |-> 0, lo |-> 0]

EvAdd(e, hi, lo) ==
    [hi |-> e.hi + hi + ((e.lo + lo) \div HalfWord), lo |-> (e.lo + lo) % HalfWord]

\* event & 0xDEAD0000
SentinelMask(e) == BitAnd(e.hi % HalfWord, SENTINEL_HI) # 0

\* the worker thread is running (created, neither returned nor cancelled)
WorkerLive == wpc \notin {"none", "exited", "cancelled", "killed"}

Obs0 ==
    [ sentinels |-> 0,      \* sentinel writes to event_fd so far
      fatal     |-> FALSE,  \* io_thread met a fatal FIFO read/write error
      hup       |-> FALSE ] \* the connection is as io_thread's handling of
                            \* a FIFO hang-up left it

\* the remote device of the stream after calloc: address 00:00:00:00:00:00,
\* no type, empty strings
Dev0 ==
    [ addr      |-> "ANY",    \* pcm->addr
      type      |-> "NULL",   \* pcm->type
      profile   |-> "",       \* pcm->profile
      interface |-> "",       \* pcm->interface
      einval    |-> FALSE ]   \* bluealsa_proxy_set_remote_device returned
                              \* -EINVAL the last time it was called

\* device addresses that str2ba accepts
DevAddrs == {"A", "B"}

\* bluealsa_proxy_parse_profile(profile)
bluealsa_proxy_parse_profile(profile) ==
    CASE profile \in {"a2dp", "A2DP"} -> "A2DP"
      [] profile \in {"sco", "SCO"}   -> "SCO"
      [] OTHER -> "NULL"

----------------------------------------------------------------------------
(* Daemon connection (close_transport, close/open_bluez_connection)        *)

Conn == [fd |-> fd, pcm_fd |-> pcm_fd, transport |-> transport,
         open |-> openfds, dhup |-> dsock_hup, hup |-> fifo_hup]

SetConn(c) ==
    /\ fd' = c.fd
    /\ pcm_fd' = c.pcm_fd
    /\ transport' = c.transport
    /\ openfds' = c.open
    /\ dsock_hup' = c.dhup
    /\ fifo_hup' = c.hup

close_transport(c) ==
    IF ~c.transport THEN c
    ELSE [c EXCEPT !.open = CloseFd(@, c.pcm_fd), !.pcm_fd = -1, !.hup = FALSE]

close_bluez_connection(c) ==
    LET d == close_transport(c)
    IN  [d EXCEPT !.open = CloseFd(@, d.fd), !.dhup = FALSE]

\* fifoOk: bluealsa_open_transport hands out a FIFO
open_bluez_connection(c, fifoOk) ==
    LET s == NewFd(c.open)
    IN  IF s = -1
        THEN [c EXCEPT !.fd = -1]
        ELSE LET c1 == [c EXCEPT !.fd = s, !.open = @ \cup {s}, !.dhup = FALSE]
                 f  == NewFd(c1.open)
             IN  IF ~link_up
                 THEN [c1 EXCEPT !.transport = FALSE]
                 ELSE IF ~fifoOk \/ f = -1
                 THEN [c1 EXCEPT !.transport = TRUE, !.pcm_fd = -1]
                 ELSE [c1 EXCEPT !.transport = TRUE, !.pcm_fd = f,
                                 !.open = @ \cup {f}, !.hup = FALSE]

----------------------------------------------------------------------------
PcmInit ==
    /\ life = "None"
    /\ stream = "PLAYBACK"
    /\ io_state = "OPEN"
    /\ fd = -1 /\ event_fd = -1 /\ pcm_fd = -1
    /\ transport = FALSE
    /\ io_ptr = 0 /\ io_hw_ptr = 0 /\ io_hw_boundary = 0
    /\ buffer_size = 0 /\ period_size = 0 /\ appl_ptr = 0
    /\ io_started = FALSE
    /\ the_pcm = FALSE
    /\ openfds = {}
    /\ ev = EvZero
    /\ nworkers = 0 /\ wpc = "none" /\ joined = FALSE /\ sigpending = FALSE
    /\ w_io_ptr = 0 /\ w_hw_ptr = 0 /\ w_frames = 0 /\ w_len = 0 /\ w_base = 0
    /\ w_buffer_size = 0 /\ w_hw_boundary = 0 /\ w_period = 0
    /\ link_up = TRUE
    /\ dsock_hup = FALSE /\ fifo_hup = FALSE
    /\ obs = Obs0
    /\ dev = Dev0

----------------------------------------------------------------------------
(* Threads, signals, undefined behaviour                                   *)

\* the locals of an iteration are dead once it has ended
WClear ==
    /\ w_io_ptr' = 0 /\ w_hw_ptr' = 0 /\ w_frames' = 0 /\ w_len' = 0
    /\ w_base' = 0
    /\ w_buffer_size' = 0 /\ w_hw_boundary' = 0 /\ w_period' = 0

\* The process dies (SIGSEGV): its threads are gone, the kernel closes its
\* descriptors, its memory is gone.
Crash ==
    /\ life' = "Crashed"
    /\ nworkers' = 0
    /\ wpc' = "killed"
    /\ openfds' = {}
    /\ stream' = "PLAYBACK" /\ io_state' = "OPEN"
    /\ fd' = -1 /\ event_fd' = -1 /\ pcm_fd' = -1 /\ transport' = FALSE
    /\ io_ptr' = 0 /\ io_hw_ptr' = 0 /\ io_hw_boundary' = 0
    /\ buffer_size' = 0 /\ period_size' = 0 /\ appl_ptr' = 0
    /\ io_started' = FALSE /\ the_pcm' = FALSE
    /\ ev' = EvZero
    /\ joined' = FALSE /\ sigpending' = FALSE
    /\ WClear
    /\ link_up' = TRUE /\ dsock_hup' = FALSE /\ fifo_hup' = FALSE
    /\ obs' = Obs0
    /\ dev' = Dev0
    /\ UNCHANGED << mon, procvars >>

\* pthread_kill(pcm->io_thread, SIGIO): the signal stays pending on a running
\* worker until its sigwait; a thread that has returned takes none. (On a
\* joined thread the call is undefined; the callers handle that case.)
pthread_kill_SIGIO == sigpending' = (sigpending \/ WorkerLive)

\* pthread_cancel + pthread_join of a thread that exists: a running worker
\* is cancelled at its next cancellation point (every blocking call of
\* io_thread is one; it has no cleanup handler), a returned one is reaped.
CancelJoin ==
    /\ wpc' = IF WorkerLive THEN "cancelled" ELSE wpc
    /\ nworkers' = IF WorkerLive THEN nworkers - 1 ELSE nworkers
    /\ joined' = TRUE
    /\ sigpending' = FALSE

----------------------------------------------------------------------------
(* io_thread                                                               *)

\* the worker runs on the stream's memory while the stream is there
WorkerRuns == life = "Open"

\* variant: always a whole period, the leftover of the buffer is not looked at
FramesWholePeriod(p, buf, per) == per

\* frames = min(period_size, buffer_size - io_ptr), unsigned
Frames(p, buf, per) ==
    LET left == (buf - p) % UMod
    IN  IF left < per THEN left ELSE per

\* variant: io_ptr += frames, with no wrap at the end of the buffer
AdvanceIoPtrNoWrap(p, frames, buf) == (p + frames) % UMod

\* io_ptr += frames; if (io_ptr >= io_buffer_size) io_ptr -= io_buffer_size
AdvanceIoPtr(p, frames, buf) ==
    LET q == (p + frames) % UMod
    IN  IF q >= buf THEN q - buf ELSE q

\* io_hw_ptr += frames; if (io_hw_ptr >= io_hw_boundary) io_hw_ptr -= boundary
AdvanceHwPtr(h, frames, bnd) ==
    LET q == (h + frames) % UMod
    IN  IF q >= bnd THEN q - bnd ELSE q

\* if (io_hw_ptr > io->appl_ptr)
UnderRun(hw, appl) == hw > appl

\* variant: the loop stops after one read or write, one frame short
TransferLoopOnce(len) == IF len > 1 THEN 1 ELSE 0

\* len after the read loop (while (len != 0 && ...)) or the write loop
\* (do ... while (len != 0)) has run to its end
TransferLoop(len) == 0

\* the value written to event_fd after each period
SyncEvent == [hi |-> 0, lo |-> 1]

\* variant: the worker leaves with an ordinary wake-up
FinalEventProgress == [hi |-> 0, lo |-> 1]

\* the value written to event_fd at final
FinalEvent == [hi |-> SENTINEL_HI, lo |-> 0]

\* eventfd_write(pcm->event_fd, v) by the worker: the counter after it
eventfd_write(e, v) ==
    IF event_fd \notin openfds THEN e
    ELSE IF v.hi = 0 THEN [e EXCEPT !.lo = Min(@ + v.lo, MaxProgress)]
    ELSE EvAdd(e, v.hi, v.lo)

\* observations of a worker write of v to event_fd
ObsEvent(o, v) ==
    [o EXCEPT !.sentinels = IF SentinelMask(v) THEN @ + 1 ELSE @]

\* pthread_sigmask(SIG_BLOCK, {SIGIO, SIGPIPE})
io_thread_init ==
    /\ WorkerRuns /\ wpc = "init"
    /\ wpc' = "wait_pcm_fd"
    /\ obs' = obs
    /\ UNCHANGED << mon, procvars, dev, life, event_fd, cfgvars, io_state, connvars, ptrvars, appl_ptr,
                    io_started, the_pcm, ev, nworkers, joined, sigpending,
                    wlocals, envvars >>

\* wait_pcm_fd on playback: straight to the period loop; on capture with no
\* FIFO: usleep and retry
io_thread_wait_pcm_fd ==
    /\ WorkerRuns /\ wpc = "wait_pcm_fd"
    /\ stream # "CAPTURE" \/ pcm_fd = -1
    /\ wpc' = IF stream # "CAPTURE" THEN "loop" ELSE "wait_pcm_fd"
    /\ obs' = obs
    /\ UNCHANGED << mon, procvars, dev, life, event_fd, cfgvars, io_state, connvars, ptrvars, appl_ptr,
                    io_started, the_pcm, ev, nworkers, joined, sigpending,
                    wlocals, envvars >>

\* poll(pcm_fd, fd) returns with no hang-up: data is readable on the FIFO;
\* or poll fails (any errno is fatal here)
io_thread_poll_ready ==
    /\ WorkerRuns /\ wpc = "wait_pcm_fd"
    /\ stream = "CAPTURE" /\ pcm_fd # -1
    /\ ~dsock_hup /\ ~fifo_hup
    /\ \E pollErr \in BOOLEAN :
         wpc' = IF pollErr THEN "final" ELSE "loop"
    /\ obs' = obs
    /\ UNCHANGED << mon, procvars, dev, life, event_fd, cfgvars, io_state, connvars, ptrvars, appl_ptr,
                    io_started, the_pcm, ev, nworkers, joined, sigpending,
                    wlocals, envvars >>

\* poll reports POLLHUP on the daemon socket or on the FIFO:
\* close_bluez_connection(); open_bluez_connection(); usleep; goto wait_pcm_fd
io_thread_poll_hup ==
    /\ life = "Open" /\ wpc = "wait_pcm_fd"
    /\ stream = "CAPTURE" /\ pcm_fd # -1
    /\ dsock_hup \/ fifo_hup
    /\ \E fifoOk \in BOOLEAN :
         SetConn(open_bluez_connection(close_bluez_connection(Conn), fifoOk))
    /\ obs' = [obs EXCEPT !.hup = @ \/ (fifo_hup /\ ~dsock_hup)]
    /\ UNCHANGED << mon, procvars, dev, life, event_fd, cfgvars, io_state, ptrvars, appl_ptr, io_started,
                    the_pcm, ev, thrvars, wlocals, envvars >>

\* switch (io->state)
io_thread_loop ==
    /\ WorkerRuns /\ wpc = "loop"
    /\ wpc' = CASE io_state \in {"RUNNING", "DRAINING"} -> "load"
                [] io_state = "DISCONNECTED" -> "final"
                [] OTHER -> "sigwait"
    /\ obs' = obs
    /\ UNCHANGED << mon, procvars, dev, life, event_fd, cfgvars, io_state, connvars, ptrvars, appl_ptr,
                    io_started, the_pcm, ev, nworkers, joined, sigpending,
                    wlocals, envvars >>

\* sigwait(&sigset, &tmp) returns once SIGIO is pending, and consumes it
io_thread_sigwait ==
    /\ WorkerRuns /\ wpc = "sigwait"
    /\ sigpending
    /\ sigpending' = FALSE
    /\ wpc' = "load"
    /\ obs' = obs
    /\ UNCHANGED << mon, procvars, dev, life, event_fd, cfgvars, io_state, connvars, ptrvars, appl_ptr,
                    io_started, the_pcm, ev, nworkers, joined, wlocals, envvars >>

\* the local copies of the pointers and their advance by one period
io_thread_load ==
    /\ WorkerRuns /\ wpc = "load"
    /\ LET frames == Frames(io_ptr, buffer_size, period_size)
       IN  /\ w_base' = io_ptr
           /\ w_buffer_size' = buffer_size
           /\ w_hw_boundary' = io_hw_boundary
           /\ w_period' = period_size
           /\ w_frames' = frames
           /\ w_len' = frames
           /\ w_io_ptr' = AdvanceIoPtr(io_ptr, frames, buffer_size)
           /\ w_hw_ptr' = AdvanceHwPtr(io_hw_ptr, frames, io_hw_boundary)
    /\ wpc' = IF stream = "CAPTURE" THEN "capture" ELSE "playback"
    /\ obs' = obs
    /\ UNCHANGED << mon, procvars, dev, life, event_fd, cfgvars, io_state, connvars, ptrvars, appl_ptr,
                    io_started, the_pcm, ev, nworkers, joined, sigpending,
                    envvars >>

\* the capture read loop: the whole period is read, or read returns 0 (the
\* writer closed), or read fails
io_thread_capture ==
    /\ WorkerRuns /\ wpc = "capture"
    /\ \E ioErr \in BOOLEAN :
         LET bad == ioErr \/ pcm_fd \notin openfds
         IN  /\ wpc' = IF bad THEN "final"
                       ELSE IF fifo_hup THEN "wait_pcm_fd" ELSE "sync"
             /\ obs' = [obs EXCEPT !.fatal = @ \/ bad]
             /\ IF ~bad /\ ~fifo_hup
                THEN /\ w_len' = TransferLoop(w_len)
                     /\ UNCHANGED << w_io_ptr, w_hw_ptr, w_frames, w_base,
                                     w_buffer_size, w_hw_boundary, w_period >>
                ELSE WClear
    /\ UNCHANGED << mon, procvars, dev, life, event_fd, cfgvars, io_state, connvars, ptrvars, appl_ptr,
                    io_started, the_pcm, ev, nworkers, joined, sigpending,
                    envvars >>

\* playback: the under-run test, then the write loop (EPIPE when the reader
\* has closed the FIFO, EBADF when there is none)
io_thread_playback ==
    /\ WorkerRuns /\ wpc = "playback"
    /\ \E ioErr \in BOOLEAN :
         LET under == UnderRun(w_hw_ptr, appl_ptr)
             bad   == ioErr \/ fifo_hup \/ pcm_fd \notin openfds
         IN  /\ io_state' = IF under THEN "XRUN" ELSE io_state
             /\ wpc' = IF under THEN "sync" ELSE IF bad THEN "final" ELSE "sync"
             /\ IF under
                THEN /\ w_io_ptr' = InvalidPtr
                     /\ UNCHANGED << w_hw_ptr, w_frames, w_len, w_base,
                                     w_buffer_size, w_hw_boundary, w_period >>
                ELSE IF bad THEN WClear
                ELSE /\ w_len' = TransferLoop(w_len)
                     /\ UNCHANGED << w_io_ptr, w_hw_ptr, w_frames, w_base,
                                     w_buffer_size, w_hw_boundary, w_period >>
             /\ obs' = [obs EXCEPT !.fatal = @ \/ (~under /\ bad)]
    /\ UNCHANGED << mon, procvars, dev, life, event_fd, cfgvars, connvars, ptrvars, appl_ptr, io_started,
                    the_pcm, ev, nworkers, joined, sigpending, envvars >>

\* variant: the stores are made after eventfd_write instead of before it
PublishLate(local, published) == published

\* the published pointer after the store at sync, before eventfd_write
Publish(local, published) == local

\* sync: pcm->io_ptr = io_ptr; pcm->io_hw_ptr = io_hw_ptr
io_thread_sync ==
    /\ WorkerRuns /\ wpc = "sync"
    /\ io_ptr' = Publish(w_io_ptr, io_ptr)
    /\ io_hw_ptr' = Publish(w_hw_ptr, io_hw_ptr)
    /\ wpc' = "notify"
    /\ obs' = obs
    /\ UNCHANGED << mon, procvars, dev, life, event_fd, cfgvars, io_state, connvars, appl_ptr, io_started,
                    the_pcm, ev, nworkers, joined, sigpending, wlocals, envvars >>

\* eventfd_write(pcm->event_fd, 1)
io_thread_notify ==
    /\ WorkerRuns /\ wpc = "notify"
    /\ ev' = eventfd_write(ev, SyncEvent)
    /\ wpc' = "loop"
    /\ obs' = ObsEvent(obs, SyncEvent)
    /\ WClear
    /\ UNCHANGED << mon, procvars, dev, life, event_fd, cfgvars, io_state, connvars, ptrvars, appl_ptr,
                    io_started, the_pcm, nworkers, joined, sigpending, envvars >>

\* final: close_transport(pcm)
io_thread_final ==
    /\ WorkerRuns /\ wpc = "final"
    /\ SetConn(close_transport(Conn))
    /\ wpc' = "final_event"
    /\ obs' = obs
    /\ UNCHANGED << mon, procvars, dev, life, event_fd, cfgvars, io_state, ptrvars, appl_ptr, io_started,
                    the_pcm, ev, nworkers, joined, sigpending, wlocals, envvars >>

\* eventfd_write(pcm->event_fd, 0xDEAD0000); return NULL
io_thread_exit ==
    /\ WorkerRuns /\ wpc = "final_event"
    /\ ev' = eventfd_write(ev, FinalEvent)
    /\ wpc' = "exited"
    /\ nworkers' = nworkers - 1
    /\ obs' = ObsEvent(obs, FinalEvent)
    /\ UNCHANGED << mon, procvars, dev, life, event_fd, cfgvars, io_state, connvars, ptrvars, appl_ptr,
                    io_started, the_pcm, joined, sigpending, wlocals, envvars >>

\* A worker that outlives close reads freed memory (and the_pcm is NULL in
\* close_bluez_connection): what it does then is not followed further, but the
\* process may die at any of its steps.
io_thread_use_after_free ==
    /\ life = "Closed" /\ WorkerLive
    /\ Crash

----------------------------------------------------------------------------
(* The plug-in entry point and the ioplug callbacks                        *)

\* variant: start creates a worker thread of its own
ThreadsAfterStartSpawn(n) == n + 1

\* worker threads after bluealsa_proxy_start: start creates none, the one
\* worker was created with the stream
ThreadsAfterStart(n) == n

\* SND_PCM_PLUGIN_DEFINE_FUNC(bluealsa_proxy): calloc, eventfd, ioplug
\* create, the_pcm = pcm, pthread_create(io_thread)
bluealsa_proxy_create ==
    /\ life = "None"
    /\ \E dir \in {"PLAYBACK", "CAPTURE"}, fail \in {"no", "ioplug", "thread"} :
         LET e == NewFd(openfds)
         IN  /\ stream' = dir
             /\ IF fail = "no"
                THEN /\ life' = "Open"
                     /\ event_fd' = e
                     /\ openfds' = openfds \cup {e}
                     /\ the_pcm' = TRUE
                     /\ nworkers' = nworkers + 1
                     /\ wpc' = "init"
                ELSE /\ life' = "Failed"
                     /\ event_fd' = -1
                     /\ openfds' = openfds
                     /\ the_pcm' = (fail = "thread")
                     /\ nworkers' = nworkers
                     /\ wpc' = "none"
    /\ obs' = obs
    /\ UNCHANGED << mon, procvars, dev, io_state, fd, pcm_fd, transport, ptrvars, io_hw_boundary,
                    buffer_size, period_size, appl_ptr, io_started, ev, joined,
                    sigpending, wlocals, envvars, dsock_hup, fifo_hup >>

\* bluealsa_proxy_set_remote_device(interface, device, profile) on an open
\* stream. device "NULL" is the null pointer; str2ba writes into pcm->addr
\* before the profile is looked at, and on a malformed string leaves the
\* address or clears it; with both valid: the strings and the type are
\* stored, then close_bluez_connection(); open_bluez_connection()
set_remote_device(interface, device, profile) ==
    /\ life = "Open" /\ the_pcm
    /\ IF device = "NULL"
       THEN /\ dev' = [dev EXCEPT !.einval = TRUE]
            /\ UNCHANGED << connvars, obs >>
       ELSE IF device \notin DevAddrs
       THEN /\ \E ba \in {dev.addr, "ANY"} :
                 dev' = [dev EXCEPT !.addr = ba, !.einval = TRUE]
            /\ UNCHANGED << connvars, obs >>
       ELSE IF bluealsa_proxy_parse_profile(profile) = "NULL"
       THEN /\ dev' = [dev EXCEPT !.addr = device, !.einval = TRUE]
            /\ UNCHANGED << connvars, obs >>
       ELSE /\ dev' = [addr |-> device,
                       type |-> bluealsa_proxy_parse_profile(profile),
                       profile |-> profile, interface |-> interface,
                       einval |-> FALSE]
            /\ \E fifoOk \in BOOLEAN :
                 SetConn(open_bluez_connection(close_bluez_connection(Conn),
                                               fifoOk))
            /\ obs' = [obs EXCEPT !.hup = FALSE]
    /\ UNCHANGED << mon, procvars, life, cfgvars, io_state, event_fd, ptrvars, appl_ptr,
                    io_started, the_pcm, ev, thrvars, wlocals, envvars >>

\* the consumer's call with a well-formed address and profile
bluealsa_proxy_set_remote_device ==
    set_remote_device("hci0", "A", "a2dp")

\* devices and profiles a consumer may pass
Devices == {"NULL", "zz", "A", "B"}

Profiles == {"NULL", "hfp", "a2dp", "sco"}

\* the consumer's call with any address and profile
bluealsa_proxy_set_remote_device_any ==
    \E device \in Devices, profile \in Profiles :
        set_remote_device("hci0", device, profile)

\* snd_pcm_hw_params: the hw_params callback (on playback it bumps
\* event_fd), then the default sw_params (bluealsa_proxy_sw_params records
\* the boundary); the host leaves the stream in SETUP
bluealsa_proxy_hw_params ==
    /\ life = "Open" /\ io_state = "OPEN"
    /\ \E cfg \in HwConfigs :
         /\ period_size' = cfg[1]
         /\ buffer_size' = cfg[2]
         /\ io_hw_boundary' = cfg[2] * BoundaryMul
    /\ ev' = IF stream = "PLAYBACK" THEN eventfd_write(ev, SyncEvent) ELSE ev
    /\ io_state' = "SETUP"
    /\ obs' = obs
    /\ UNCHANGED << mon, procvars, dev, life, stream, connvars, event_fd, ptrvars, appl_ptr,
                    io_started, the_pcm, thrvars, wlocals, envvars >>

\* snd_pcm_hw_free: close_transport(pcm); the host returns to OPEN
bluealsa_proxy_hw_free ==
    /\ life = "Open" /\ io_state \in {"SETUP", "PREPARED"}
    /\ SetConn(close_transport(Conn))
    /\ io_state' = "OPEN"
    /\ obs' = obs
    /\ UNCHANGED << mon, procvars, dev, life, cfgvars, event_fd, ptrvars, appl_ptr, io_started,
                    the_pcm, ev, thrvars, wlocals, envvars >>

\* snd_pcm_prepare: the host resets its pointers and enters PREPARED; the
\* callback resets io_hw_ptr and io_ptr
bluealsa_proxy_prepare ==
    /\ life = "Open" /\ io_state \in {"SETUP", "PREPARED", "XRUN"}
    /\ io_hw_ptr' = 0
    /\ io_ptr' = 0
    /\ appl_ptr' = 0
    /\ io_state' = "PREPARED"
    /\ obs' = obs
    /\ UNCHANGED << mon, procvars, dev, life, cfgvars, connvars, event_fd, io_started, the_pcm, ev,
                    thrvars, wlocals, envvars >>

\* snd_pcm_start: the start callback; the host requires PREPARED
bluealsa_proxy_start ==
    /\ life = "Open" /\ io_state = "PREPARED"
    /\ IF io_started
       THEN \* resume signal to the worker
            \/ /\ ~joined
               /\ io_state' = "RUNNING"
               /\ pthread_kill_SIGIO
               /\ obs' = obs
               /\ UNCHANGED << mon, procvars, dev, life, cfgvars, connvars, event_fd, ptrvars,
                               appl_ptr, io_started, the_pcm, ev, nworkers,
                               wpc, joined, wlocals, envvars >>
            \* pthread_kill on a joined thread: ESRCH, or the process dies
            \/ /\ joined
               /\ \/ /\ io_state' = "RUNNING"
                     /\ obs' = obs
                     /\ UNCHANGED << mon, procvars, dev, life, cfgvars, connvars, event_fd, ptrvars,
                                     appl_ptr, io_started, the_pcm, ev, thrvars,
                                     wlocals, envvars >>
                  \/ Crash
       ELSE \E pauseOk \in BOOLEAN :
              IF transport /\ ~pauseOk
              THEN \* bluealsa_pause_transport failed: return -errno
                   /\ obs' = obs
                   /\ UNCHANGED << mon, procvars, dev, life, cfgvars, io_state, connvars, event_fd,
                                   ptrvars, appl_ptr, io_started, the_pcm, ev,
                                   thrvars, wlocals, envvars >>
              ELSE /\ io_state' = "RUNNING"
                   /\ io_started' = TRUE
                   /\ nworkers' = ThreadsAfterStart(nworkers)
                   /\ obs' = obs
                   /\ UNCHANGED << mon, procvars, dev, life, cfgvars, connvars, event_fd, ptrvars,
                                   appl_ptr, the_pcm, ev, wpc, joined,
                                   sigpending, wlocals, envvars >>

\* variant: the worker is cancelled and joined whether or not it is started
StopCancelsAlways == TRUE

\* bluealsa_proxy_stop cancels and joins the worker: if (pcm->io_started)
StopCancels == io_started

\* snd_pcm_drop: the stop callback; the host then enters SETUP
bluealsa_proxy_stop ==
    /\ life = "Open" /\ io_state # "OPEN"
    /\ IF ~StopCancels
       THEN /\ io_state' = "SETUP"
            /\ obs' = obs
            /\ UNCHANGED << mon, procvars, dev, life, cfgvars, connvars, event_fd, ptrvars, appl_ptr,
                            io_started, the_pcm, ev, thrvars, wlocals, envvars >>
       ELSE \/ /\ ~joined
               /\ io_started' = FALSE
               /\ CancelJoin
               /\ WClear
               /\ io_state' = "SETUP"
               /\ obs' = obs
               /\ UNCHANGED << mon, procvars, dev, life, cfgvars, connvars, event_fd, ptrvars,
                               appl_ptr, the_pcm, ev, envvars >>
            \* pthread_cancel/join on a joined thread: ESRCH, or the process dies
            \/ /\ joined
               /\ \/ /\ io_started' = FALSE
                     /\ io_state' = "SETUP"
                     /\ obs' = obs
                     /\ UNCHANGED << mon, procvars, dev, life, cfgvars, connvars, event_fd, ptrvars,
                                     appl_ptr, the_pcm, ev, thrvars, wlocals,
                                     envvars >>
                  \/ Crash

\* what bluealsa_proxy_pause(io, enable) does on a stream with a transport
\* pauseOk: bluealsa_pause_transport succeeds
\* ret: the value returned (-1 for -errno); signal: pthread_kill(SIGIO) is
\* called; bump: eventfd_write(pcm->event_fd, 1) is called
pause(enable, pauseOk) ==
    [ ret    |-> IF pauseOk THEN 0 ELSE -1,
      signal |-> pauseOk /\ enable = 0,
      bump   |-> pauseOk ]

\* snd_pcm_pause(enable): the host requires RUNNING to pause and PAUSED to
\* resume, and records the new state when the callback returns 0.
\* bluealsa_pause_transport reads *pcm->transport: with no transport the
\* process dies.
bluealsa_proxy_pause ==
    /\ life = "Open"
    /\ \E enable \in {0, 1}, pauseOk \in BOOLEAN :
         /\ io_state = IF enable = 1 THEN "RUNNING" ELSE "PAUSED"
         /\ IF ~transport THEN Crash
            ELSE IF pause(enable, pauseOk).ret # 0
            THEN \* return -errno
                 /\ obs' = obs
                 /\ UNCHANGED << mon, procvars, dev, life, cfgvars, io_state, connvars, event_fd,
                                 ptrvars, appl_ptr, io_started, the_pcm, ev,
                                 thrvars, wlocals, envvars >>
            ELSE IF enable = 0 /\ joined
            THEN \* pthread_kill on a joined thread: ESRCH, or the process dies
                 \/ /\ io_state' = "RUNNING"
                    /\ ev' = eventfd_write(ev, SyncEvent)
                    /\ obs' = obs
                    /\ UNCHANGED << mon, procvars, dev, life, cfgvars, connvars, event_fd, ptrvars,
                                    appl_ptr, io_started, the_pcm, thrvars,
                                    wlocals, envvars >>
                 \/ Crash
            ELSE /\ io_state' = IF enable = 0 THEN "RUNNING" ELSE "PAUSED"
                 /\ IF pause(enable, pauseOk).signal THEN pthread_kill_SIGIO
                    ELSE UNCHANGED sigpending
                 /\ ev' = IF pause(enable, pauseOk).bump
                          THEN eventfd_write(ev, SyncEvent) ELSE ev
                 /\ obs' = obs
                 /\ UNCHANGED << mon, procvars, dev, life, cfgvars, connvars, event_fd, ptrvars,
                                 appl_ptr, io_started, the_pcm, nworkers, wpc,
                                 joined, wlocals, envvars >>

\* snd_pcm_drain on playback: the host enters DRAINING, the callback asks the
\* daemon to drain the transport
bluealsa_proxy_drain ==
    /\ life = "Open" /\ io_state = "RUNNING" /\ stream = "PLAYBACK"
    /\ IF ~transport THEN Crash
       ELSE /\ io_state' = "DRAINING"
            /\ obs' = obs
            /\ UNCHANGED << mon, procvars, dev, life, cfgvars, connvars, event_fd, ptrvars, appl_ptr,
                            io_started, the_pcm, ev, thrvars, wlocals, envvars >>

\* free(pcm); the_pcm = NULL: the instance is gone, its fields hold nothing
Freed ==
    /\ life' = "Closed"
    /\ the_pcm' = FALSE
    /\ io_state' = "OPEN"
    /\ fd' = -1 /\ event_fd' = -1 /\ pcm_fd' = -1 /\ transport' = FALSE
    /\ io_ptr' = 0 /\ io_hw_ptr' = 0 /\ io_hw_boundary' = 0
    /\ buffer_size' = 0 /\ period_size' = 0 /\ appl_ptr' = 0
    /\ io_started' = FALSE
    /\ ev' = EvZero
    /\ WClear
    /\ dsock_hup' = FALSE /\ fifo_hup' = FALSE
    /\ dev' = Dev0
    /\ UNCHANGED << mon, procvars, stream, link_up, obs >>

\* snd_pcm_close: on a set-up stream the host first drops (stop callback) and
\* frees the hardware (hw_free callback); then the close callback:
\* close(pcm->fd); close(pcm->event_fd); free(pcm); the_pcm = NULL
bluealsa_proxy_close ==
    /\ life = "Open"
    /\ LET setup  == io_state # "OPEN"
           cancel == setup /\ io_started
           c0     == IF setup THEN close_transport(Conn) ELSE Conn
       IN  \/ /\ ~(cancel /\ joined)
              /\ IF cancel THEN CancelJoin ELSE UNCHANGED thrvars
              /\ openfds' = CloseFd(CloseFd(c0.open, c0.fd), event_fd)
              /\ Freed
           \* the drop cancels a joined thread: ESRCH (as above), or the
           \* process dies
           \/ /\ cancel /\ joined
              /\ \/ /\ UNCHANGED thrvars
                    /\ openfds' = CloseFd(CloseFd(c0.open, c0.fd), event_fd)
                    /\ Freed
                 \/ Crash

\* bluealsa_proxy_poll_revents(pfd, 1, &revents): the value returned, what
\* *revents holds afterwards ("unset": not written, it keeps what the caller
\* had there) and the counter of event_fd afterwards.
\* pollin: pfd[0].revents & POLLIN; avail0: snd_pcm_avail_update returned 0
poll_revents(pollin, avail0) ==
    IF pcm_fd = -1
    THEN [ret |-> "ENODEV", revents |-> "unset", ev |-> ev]
    ELSE IF pollin
    THEN IF SentinelMask(ev)
         THEN [ret |-> "ENODEV", revents |-> "POLLERR|POLLHUP", ev |-> EvZero]
         ELSE IF avail0
         THEN [ret |-> "0", revents |-> "0", ev |-> EvZero]
         ELSE [ret |-> "0", ev |-> EvZero,
               revents |-> IF stream = "CAPTURE" THEN "POLLIN" ELSE "POLLOUT"]
    ELSE [ret |-> "0", revents |-> "0", ev |-> ev]

\* the consumer's poll(2) on event_fd returned POLLIN (its counter is not
\* zero) and it calls poll_revents
bluealsa_proxy_poll_revents ==
    /\ life = "Open"
    /\ ev # EvZero
    /\ \E avail0 \in BOOLEAN : ev' = poll_revents(TRUE, avail0).ev
    /\ UNCHANGED << mon, procvars, dev, life, cfgvars, io_state, connvars, event_fd, ptrvars,
                    appl_ptr, io_started, the_pcm, thrvars, wlocals, envvars,
                    obs >>

----------------------------------------------------------------------------
(* The consumer's data and the environment                                 *)

\* the consumer commits one period of playback data: the host advances
\* io->appl_ptr modulo the boundary, while the buffer has room
ConsumerWrite ==
    /\ life = "Open" /\ stream = "PLAYBACK"
    /\ io_state \in {"PREPARED", "RUNNING"}
    /\ io_hw_ptr < io_hw_boundary
    /\ ((appl_ptr - io_hw_ptr) % io_hw_boundary) + period_size <= buffer_size
    /\ appl_ptr' = (appl_ptr + period_size) % io_hw_boundary
    /\ obs' = obs
    /\ UNCHANGED << mon, procvars, dev, life, cfgvars, io_state, connvars, event_fd, ptrvars,
                    io_started, the_pcm, ev, thrvars, wlocals, envvars >>

\* the remote device goes away: the daemon drops the transport and closes its
\* end of the FIFO
EnvLinkDown ==
    /\ life = "Open" /\ link_up
    /\ link_up' = FALSE
    /\ fifo_hup' = (pcm_fd \in openfds)
    /\ obs' = obs
    /\ UNCHANGED << mon, procvars, dev, life, cfgvars, io_state, fd, event_fd, pcm_fd, transport,
                    openfds, dsock_hup, ptrvars, appl_ptr, io_started, the_pcm,
                    ev, thrvars, wlocals >>

\* the remote device is back: the daemon has the transport again
EnvLinkUp ==
    /\ life = "Open" /\ ~link_up
    /\ link_up' = TRUE
    /\ obs' = obs
    /\ UNCHANGED << mon, procvars, dev, life, cfgvars, io_state, connvars, event_fd, ptrvars,
                    appl_ptr, io_started, the_pcm, ev, thrvars, wlocals >>

\* the daemon is restarted: its sockets and FIFOs hang up, and it has no
\* transport until the remote device is back (only the capture worker looks
\* at the socket's hang-up)
EnvDaemonRestart ==
    /\ life = "Open" /\ stream = "CAPTURE" /\ fd \in openfds /\ ~dsock_hup
    /\ link_up' = FALSE
    /\ dsock_hup' = TRUE
    /\ fifo_hup' = (pcm_fd \in openfds)
    /\ obs' = obs
    /\ UNCHANGED << mon, procvars, dev, life, cfgvars, io_state, fd, event_fd, pcm_fd, transport,
                    openfds, ptrvars, appl_ptr, io_started, the_pcm, ev, thrvars,
                    wlocals >>

----------------------------------------------------------------------------
(* The device monitor (src/bluealsalib/bluealsa.c): one handle, its         *)
(* monitor thread, the thread that calls bluezalsa_set_device and          *)
(* bluezalsa_close ("client"), the thread that sits in bluezalsa_readi     *)
(* ("reader"), and the daemon's list of transports.                        *)

\* transports the daemon may list
MonTransports ==
    { [addr |-> "A", type |-> "A2DP", stream |-> "CAPTURE"],
      [addr |-> "B", type |-> "A2DP", stream |-> "CAPTURE"],
      [addr |-> "B", type |-> "SCO",  stream |-> "PLAYBACK"] }

\* the daemon lists at most MaxTransports transports
MaxTransports == 2

\* events queued on the handle's event socket, at most
MaxEvents == 2

\* FIFO descriptor numbers the monitor's process can hold: 1 .. MaxFifos
MaxFifos == 2

MonFds == 1 .. MaxFifos

\* no transport
NoTransport == [addr |-> "NULL", type |-> "NONE", stream |-> "NONE"]

NoChange == [valid |-> FALSE, locked |-> FALSE, writes |-> 0]

\* struct bluezalsa_handle after bluezalsa_open, and what surrounds it
Mon0 ==
    [ life   |-> "None",    \* "None" | "Open" | "Failed" | "Closed"
      addr   |-> "NULL",    \* h->addr
      type   |-> "NONE",    \* h->type
      snd_fd |-> -1,        \* h->snd_fd
      fifos  |-> {},        \* FIFO descriptors open in the process
      mutex  |-> "free",    \* owner of h->transport_mutex
      cev    |-> FALSE,     \* client_event_fd is readable
      tlist  |-> << >>,     \* the daemon's transports, in the order it lists them
      att    |-> NoTransport,   \* the daemon's transport behind h->snd_fd
      hup    |-> FALSE,     \* the peer of h->snd_fd has hung up
      events |-> 0,         \* events queued on h->event_fd
      mpc    |-> "none",    \* monitor thread: none | poll | refresh | locked | exited | cancelled
      cpc    |-> "idle",    \* client thread: idle | refresh | locked | blocked
      readi  |-> "none",    \* how bluezalsa_readi last returned: none | data | poll
      last   |-> NoChange ] \* the last change of h->snd_fd: was the mutex held
                            \* by the changing thread, notification writes made

MonInit == mon = Mon0

\* the index of the transport update_device_attach_state settles on, 0 when
\* none: the loop filters by type and stream, and compares h->addr with the
\* address of the first element of the list
MatchIdx(tl, addr, type) ==
    LET ok(i) == /\ tl[i].type = type
                 /\ tl[i].stream \in {"CAPTURE", "DUPLEX"}
                 /\ tl[1].addr = addr
        hits  == { i \in 1..Len(tl) : ok(i) }
    IN  IF hits = {} THEN 0 ELSE CHOOSE i \in hits : \A j \in hits : i <= j

\* a change of h->snd_fd by a thread that does (or does not) hold the mutex,
\* with the number of writes to client_event_fd that follow it
Changed(m, from, locked, writes) ==
    IF m.snd_fd = from THEN m
    ELSE [m EXCEPT !.last = [valid |-> TRUE, locked |-> locked, writes |-> writes]]

\* device_detach(h)
device_detach(m) ==
    IF m.addr = "NULL" \/ m.snd_fd = -1 THEN m
    ELSE [m EXCEPT !.fifos = @ \ {m.snd_fd}, !.snd_fd = -1,
                   !.att = NoTransport, !.hup = FALSE]

\* bluezalsa_open: the handle, its descriptors, the subscription and the
\* monitor thread; on any failure delete_handle
bluezalsa_open ==
    /\ mon.life = "None"
    /\ \E ok \in BOOLEAN :
         mon' = IF ok THEN [mon EXCEPT !.life = "Open", !.mpc = "poll"]
                ELSE [mon EXCEPT !.life = "Failed"]
    /\ UNCHANGED << pcmvars, procvars >>

\* bluezalsa_set_device(h, addr, type) up to the unlock; with a device
\* address the caller goes on to update_device_attach_state
bluezalsa_set_device ==
    /\ mon.life = "Open" /\ mon.cpc = "idle" /\ mon.mutex = "free"
    /\ \E addr \in {"NULL", "A", "B", "bad"}, type \in {"A2DP", "SCO"} :
         LET m1 == IF mon.addr = "NULL" THEN mon
                   ELSE [mon EXCEPT !.addr = "NULL", !.snd_fd = -1,
                                    !.att = NoTransport, !.hup = FALSE]
             m2 == Changed(m1, mon.snd_fd, TRUE, 0)
         IN  mon' = CASE addr = "NULL" -> [m2 EXCEPT !.type = type]
                      [] addr = "bad"  -> [m2 EXCEPT !.addr = "NULL"]
                      [] OTHER -> [m2 EXCEPT !.addr = addr, !.type = type,
                                             !.cpc = "refresh"]
    /\ UNCHANGED << pcmvars, procvars >>

\* the position of thread t
MonPc(t) == IF t = "monitor" THEN mon.mpc ELSE mon.cpc

SetMonPc(m, t, pc) ==
    IF t = "monitor" THEN [m EXCEPT !.mpc = pc] ELSE [m EXCEPT !.cpc = pc]

\* where thread t goes on after update_device_attach_state
MonAfter(t) == IF t = "monitor" THEN "poll" ELSE "idle"

\* update_device_attach_state: pthread_mutex_lock(&h->transport_mutex)
update_device_attach_state_lock ==
    /\ mon.life = "Open"
    /\ \E t \in {"monitor", "client"} :
         /\ MonPc(t) = "refresh" /\ mon.mutex = "free"
         /\ mon' = SetMonPc([mon EXCEPT !.mutex = t], t, "locked")
    /\ UNCHANGED << pcmvars, procvars >>

\* update_device_attach_state from the lock on
\* getOk: bluealsa_get_transports succeeds; openOk: bluealsa_open_transport
\* hands out a FIFO; note: the write of the uninitialised u makes
\* client_event_fd readable, or is rejected or adds nothing
update_device_attach_state ==
    /\ mon.life = "Open"
    /\ \E t \in {"monitor", "client"}, getOk, openOk, note \in BOOLEAN :
         /\ MonPc(t) = "locked"
         /\ LET idx   == MatchIdx(mon.tlist, mon.addr, mon.type)
                free  == MonFds \ mon.fifos
                new   == CHOOSE n \in free : \A k \in free : n <= k
                unl(m) == SetMonPc([m EXCEPT !.mutex = "free"], t, MonAfter(t))
            IN  mon' =
                  IF mon.addr = "NULL" \/ ~getOk THEN unl(mon)
                  ELSE IF idx = 0
                  THEN unl(Changed(device_detach(mon), mon.snd_fd, TRUE, 0))
                  ELSE IF mon.snd_fd # -1 THEN unl(mon)
                  ELSE IF ~openOk \/ free = {}
                  THEN \* goto failed: the mutex stays locked
                       SetMonPc(mon, t, MonAfter(t))
                  ELSE unl(Changed([mon EXCEPT !.snd_fd = new,
                                               !.fifos = @ \cup {new},
                                               !.att = mon.tlist[idx],
                                               !.hup = FALSE,
                                               !.cev = @ \/ note],
                                   mon.snd_fd, TRUE, 1))
    /\ UNCHANGED << pcmvars, procvars >>

\* monitor_worker_routine: poll, recv of one event, then the refresh; a
\* failed recv ends the thread
monitor_worker_routine ==
    /\ mon.life = "Open" /\ mon.mpc = "poll" /\ mon.events > 0
    /\ \E recvOk \in BOOLEAN :
         mon' = [mon EXCEPT !.events = @ - 1,
                            !.mpc = IF recvOk THEN "refresh" ELSE "exited"]
    /\ UNCHANGED << pcmvars, procvars >>

\* bluezalsa_readi: poll reports POLLHUP on snd_fd: device_detach(h); again
bluezalsa_readi_hup ==
    /\ mon.life = "Open" /\ mon.snd_fd # -1 /\ mon.hup /\ mon.addr # "NULL"
    /\ mon' = Changed(device_detach(mon), mon.snd_fd, FALSE, 0)
    /\ UNCHANGED << pcmvars, procvars >>

\* bluezalsa_readi: poll reports POLLIN on client_event_fd: read it
bluezalsa_readi_event ==
    /\ mon.life = "Open" /\ mon.cev /\ ~(mon.snd_fd # -1 /\ mon.hup)
    /\ mon' = [mon EXCEPT !.cev = FALSE]
    /\ UNCHANGED << pcmvars, procvars >>

\* bluezalsa_readi: poll reports POLLIN on snd_fd only: read(h->snd_fd); a
\* failed read goes back to poll, a successful one is returned to the caller
bluezalsa_readi_data ==
    /\ mon.life = "Open" /\ mon.snd_fd # -1 /\ ~mon.hup /\ ~mon.cev
    /\ \E readOk \in BOOLEAN :
         mon' = [mon EXCEPT !.readi = IF readOk THEN "data" ELSE @]
    /\ UNCHANGED << pcmvars, procvars >>

\* bluezalsa_readi: poll returns -1 (a signal handler ran in the calling
\* thread: EINTR): goto failed, which returns ret = 0
bluezalsa_readi_poll_failed ==
    /\ mon.life = "Open"
    /\ mon' = [mon EXCEPT !.readi = "poll"]
    /\ UNCHANGED << pcmvars, procvars >>

\* bluezalsa_close: cancel and join the monitor thread, then delete_handle,
\* which locks the mutex first and closes ba_fd, event_fd, client_event_fd
bluezalsa_close ==
    /\ mon.life = "Open" /\ mon.cpc = "idle"
    /\ LET m1 == [mon EXCEPT !.mpc = IF @ = "exited" THEN @ ELSE "cancelled"]
       IN  mon' = IF mon.mutex # "free"
                  THEN [m1 EXCEPT !.cpc = "blocked"]
                  ELSE [m1 EXCEPT !.life = "Closed", !.addr = "NULL",
                                  !.cev = FALSE, !.events = 0]
    /\ UNCHANGED << pcmvars, procvars >>

\* the daemon gains a transport and tells its subscribers
EnvTransportAdded ==
    /\ mon.life = "Open"
    /\ Len(mon.tlist) < MaxTransports /\ mon.events < MaxEvents
    /\ \E t \in MonTransports :
         /\ \A i \in 1..Len(mon.tlist) : mon.tlist[i] # t
         /\ mon' = [mon EXCEPT !.tlist = Append(@, t), !.events = @ + 1]
    /\ UNCHANGED << pcmvars, procvars >>

\* the daemon loses a transport, closes its FIFO and tells its subscribers
EnvTransportRemoved ==
    /\ mon.life = "Open" /\ mon.events < MaxEvents
    /\ \E i \in 1..Len(mon.tlist) :
         mon' = [mon EXCEPT
                   !.tlist = SubSeq(@, 1, i - 1) \o SubSeq(@, i + 1, Len(@)),
                   !.events = @ + 1,
                   !.hup = @ \/ (mon.att = mon.tlist[i])]
    /\ UNCHANGED << pcmvars, procvars >>

MonNext ==
    \/ bluezalsa_open
    \/ bluezalsa_set_device
    \/ update_device_attach_state_lock
    \/ update_device_attach_state
    \/ monitor_worker_routine
    \/ bluezalsa_readi_hup
    \/ bluezalsa_readi_event
    \/ bluezalsa_readi_data
    \/ bluezalsa_readi_poll_failed
    \/ bluezalsa_close
    \/ EnvTransportAdded
    \/ EnvTransportRemoved

WorkerNext ==
    \/ io_thread_init
    \/ io_thread_wait_pcm_fd
    \/ io_thread_poll_ready
    \/ io_thread_poll_hup
    \/ io_thread_loop
    \/ io_thread_sigwait
    \/ io_thread_load
    \/ io_thread_capture
    \/ io_thread_playback
    \/ io_thread_sync
    \/ io_thread_notify
    \/ io_thread_final
    \/ io_thread_exit

PcmNext ==
    \/ bluealsa_proxy_create
    \/ bluealsa_proxy_set_remote_device
    \/ bluealsa_proxy_hw_params
    \/ bluealsa_proxy_hw_free
    \/ bluealsa_proxy_prepare
    \/ bluealsa_proxy_start
    \/ bluealsa_proxy_stop
    \/ bluealsa_proxy_pause
    \/ bluealsa_proxy_drain
    \/ bluealsa_proxy_close
    \/ bluealsa_proxy_poll_revents
    \/ ConsumerWrite
    \/ EnvLinkDown
    \/ EnvLinkUp
    \/ EnvDaemonRestart
    \/ WorkerNext
    \/ io_thread_use_after_free

----------------------------------------------------------------------------
(* Two streams in one process                                              *)

\* bound: FIFO connections one stream object opens
MaxConn == 2

Streams == {1, 2}

\* struct bluealsa_pcm of one stream, as far as the connection goes
\* life: "none" | "open" | "freed"; fd, pcm_fd: the descriptor is open;
\* transport: pcm->transport != NULL; conn: which of its connections the
\* descriptors belong to; hup: poll reports POLLHUP on fd or pcm_fd
Stream0 ==
    [ life |-> "none", fd |-> FALSE, pcm_fd |-> FALSE, transport |-> FALSE,
      conn |-> 0, hup |-> FALSE ]

\* nobody has reconnected yet
NoReconnect == [by |-> 0, on |-> 0]

\* the_pcm: the stream the global points to, 0 for NULL
\* crashed: "no", or the caller that used a NULL or freed the_pcm
\* last: the worker that ran the last reconnect and the stream it acted on
Pcms0 ==
    [ the_pcm |-> 0, crashed |-> "no", last |-> NoReconnect,
      s |-> [i \in Streams |-> Stream0] ]

PcmsInit == pcms = Pcms0

\* close_bluez_connection() on the object the_pcm points to: close_transport
\* (nothing without a transport) and close(pcm->fd)
close_the_pcm(r) ==
    [r EXCEPT !.pcm_fd = IF r.transport THEN FALSE ELSE @,
              !.fd = FALSE, !.hup = FALSE]

\* how far open_bluez_connection gets
OpenOutcomes == {"no daemon", "no transport", "no fifo", "ok"}

\* open_bluez_connection() on the object the_pcm points to
open_the_pcm(r, outcome) ==
    CASE outcome = "no daemon"    -> r
      [] outcome = "no transport" -> [r EXCEPT !.fd = TRUE, !.transport = FALSE]
      [] outcome = "no fifo"      -> [r EXCEPT !.fd = TRUE, !.transport = TRUE,
                                               !.pcm_fd = FALSE]
      [] OTHER -> [r EXCEPT !.fd = TRUE, !.transport = TRUE, !.pcm_fd = TRUE,
                            !.conn = @ + 1]

\* the process dies in caller who
PcmsCrash(who) == [Pcms0 EXCEPT !.crashed = who]

\* close_bluez_connection(); open_bluez_connection(): both start with
\* pcm = the_pcm. A NULL the_pcm is dereferenced; an object that was freed
\* is read and written after its free.
reconnect_the_pcm(p, who, outcome) ==
    IF p.the_pcm = 0 \/ p.s[p.the_pcm].life # "open" THEN PcmsCrash(who)
    ELSE [p EXCEPT !.s[p.the_pcm] = open_the_pcm(close_the_pcm(@), outcome)]

\* SND_PCM_PLUGIN_DEFINE_FUNC(bluealsa_proxy) for stream i: the_pcm = pcm,
\* then pthread_create; when that fails the object is freed and the_pcm
\* keeps pointing to it
stream_create(i) ==
    /\ pcms.crashed = "no" /\ pcms.s[i].life # "open"
    /\ \E thrOk \in BOOLEAN :
         pcms' = [pcms EXCEPT !.the_pcm = i,
                    !.s[i] = [Stream0 EXCEPT
                                !.life = IF thrOk THEN "open" ELSE "freed"]]
    /\ UNCHANGED << pcmvars, mon, evc >>

\* bluealsa_proxy_set_remote_device with a valid address and profile: it has
\* no stream argument, it works on the_pcm (NULL: it returns -1)
stream_set_remote_device ==
    /\ pcms.crashed = "no" /\ pcms.the_pcm # 0
    /\ \E outcome \in OpenOutcomes :
         /\ (outcome = "ok" /\ pcms.the_pcm # 0) =>
              pcms.s[pcms.the_pcm].conn < MaxConn
         /\ pcms' = reconnect_the_pcm(pcms, "set_remote_device", outcome)
    /\ UNCHANGED << pcmvars, mon, evc >>

\* the daemon or the remote device goes away under stream i
stream_hang_up(i) ==
    /\ pcms.crashed = "no"
    /\ pcms.s[i].life = "open" /\ pcms.s[i].pcm_fd /\ ~pcms.s[i].hup
    /\ pcms' = [pcms EXCEPT !.s[i].hup = TRUE]
    /\ UNCHANGED << pcmvars, mon, evc >>

\* io_thread of stream i at wait_pcm_fd: its own pcm->pcm_fd is open, poll
\* on its own descriptors reports POLLHUP: close_bluez_connection();
\* open_bluez_connection()
stream_reconnect(i) ==
    /\ pcms.crashed = "no"
    /\ pcms.s[i].life = "open" /\ pcms.s[i].pcm_fd /\ pcms.s[i].hup
    /\ \E outcome \in OpenOutcomes :
         /\ (outcome = "ok" /\ pcms.the_pcm # 0) =>
              pcms.s[pcms.the_pcm].conn < MaxConn
         /\ LET p == reconnect_the_pcm(pcms, "reconnect", outcome)
            IN  pcms' = IF p.crashed # "no" THEN p
                        ELSE [p EXCEPT !.last = [by |-> i, on |-> pcms.the_pcm]]
    /\ UNCHANGED << pcmvars, mon, evc >>

\* bluealsa_proxy_close of stream i: free(pcm); the_pcm = NULL
stream_close(i) ==
    /\ pcms.crashed = "no" /\ pcms.s[i].life = "open"
    /\ pcms' = [pcms EXCEPT !.the_pcm = 0,
                            !.s[i] = [Stream0 EXCEPT !.life = "freed"]]
    /\ UNCHANGED << pcmvars, mon, evc >>

TwoNext ==
    \/ \E i \in Streams : stream_create(i)
    \/ stream_set_remote_device
    \/ \E i \in Streams : stream_hang_up(i)
    \/ \E i \in Streams : stream_reconnect(i)
    \/ \E i \in Streams : stream_close(i)

----------------------------------------------------------------------------
(* The counter of event_fd when nobody reads it for a long time            *)

\* bound: progress units that pile up unread on event_fd
MaxUnread == 65536

\* counter: what eventfd_read would hand out; sentinel: io_thread's final
\* write is part of it; exited: io_thread has returned
Evc0 == [counter |-> EvZero, sentinel |-> FALSE, exited |-> FALSE]

EvcInit == evc = Evc0

\* the progress units in the counter
Unread(e) ==
    (e.counter.hi - (IF e.sentinel THEN SENTINEL_HI ELSE 0)) * HalfWord
        + e.counter.lo

\* n iterations of io_thread in a row: n times eventfd_write(event_fd, 1)
Bursts == {1, HalfWord \div 2}

\* io_thread at sync, n periods running, the consumer not reading event_fd
\* in between (it gets its timing elsewhere, or pcm_fd is -1 and
\* poll_revents returns before the read)
event_progress ==
    /\ ~evc.exited
    /\ \E n \in Bursts :
         /\ Unread(evc) + n <= MaxUnread
         /\ evc' = [evc EXCEPT !.counter = EvAdd(@, 0, n)]
    /\ UNCHANGED << pcmvars, mon, pcms >>

\* bluealsa_proxy_pause: eventfd_write(pcm->event_fd, 1)
event_pause ==
    /\ Unread(evc) + 1 <= MaxUnread
    /\ evc' = [evc EXCEPT !.counter = EvAdd(@, 0, 1)]
    /\ UNCHANGED << pcmvars, mon, pcms >>

\* io_thread at final: eventfd_write(pcm->event_fd, 0xDEAD0000)
event_final ==
    /\ ~evc.exited
    /\ evc' = [evc EXCEPT !.counter = EvAdd(@, FinalEvent.hi, FinalEvent.lo),
                          !.sentinel = TRUE, !.exited = TRUE]
    /\ UNCHANGED << pcmvars, mon, pcms >>

\* bluealsa_proxy_poll_revents with POLLIN: eventfd_read hands out the
\* counter and resets it; SentinelMask of what was read selects the fatal
\* branch
event_poll_revents ==
    /\ evc.counter # EvZero
    /\ evc' = [evc EXCEPT !.counter = EvZero, !.sentinel = FALSE]
    /\ UNCHANGED << pcmvars, mon, pcms >>

EvNext ==
    \/ event_progress
    \/ event_pause
    \/ event_final
    \/ event_poll_revents

Init == PcmInit /\ MonInit /\ PcmsInit /\ EvcInit

Next == PcmNext

Spec == Init /\ [][Next]_vars

MonSpec == Init /\ [][MonNext]_vars

TwoSpec == Init /\ [][TwoNext]_vars

EvSpec == Init /\ [][EvNext]_vars

\* the consumer choosing the remote device of a stream, with well-formed and
\* malformed arguments, while the remote device comes and goes
DevNext ==
    \/ bluealsa_proxy_create
    \/ bluealsa_proxy_set_remote_device_any
    \/ bluealsa_proxy_hw_params
    \/ bluealsa_proxy_hw_free
    \/ EnvLinkDown
    \/ EnvLinkUp

DevSpec == Init /\ [][DevNext]_vars

----------------------------------------------------------------------------
(* FairSpec: a stream that is opened, configured, started and fed, with    *)
(* the remote link coming and going; a runnable worker thread is           *)
(* eventually scheduled.                                                   *)

FairNext ==
    \/ bluealsa_proxy_create
    \/ bluealsa_proxy_set_remote_device
    \/ bluealsa_proxy_hw_params
    \/ bluealsa_proxy_prepare
    \/ bluealsa_proxy_start
    \/ ConsumerWrite
    \/ EnvLinkDown
    \/ EnvLinkUp
    \/ WorkerNext

FairSpec == Init /\ [][FairNext]_vars /\ WF_vars(WorkerNext)

----------------------------------------------------------------------------
(* Properties                                                              *)

\* C1: through every sequence of creation, start, stop, pause and close on
\* the stream, at most one I/O worker thread of the stream exists.
C1_AtMostOneWorker == nworkers <= 1

\* a started, then paused stream with its worker
C1_Witness ==
    life = "Open" /\ nworkers = 1 /\ io_started /\ io_state = "PAUSED"

\* playback, FIFO attached, prepared and started, nothing written yet
C2_StartedNoData ==
    /\ life = "Open" /\ stream = "PLAYBACK"
    /\ pcm_fd # -1 /\ io_started /\ io_state = "RUNNING"
    /\ appl_ptr = 0 /\ WorkerLive

\* C2: on a playback stream with an attached FIFO, after prepare and the
\* first start with no data written, the worker eventually sets the state to
\* XRUN (unless the consumer writes data, or the FIFO or the worker is lost,
\* in the meantime).
C2_FirstStartUnderruns ==
    C2_StartedNoData ~>
        (io_state = "XRUN" \/ appl_ptr # 0 \/ pcm_fd = -1 \/ ~WorkerLive)

\* C3: once the worker of a stream that has a transport has exited on a fatal
\* FIFO error and written the sentinel, every poll_revents call made while
\* event_fd is readable sets revents to POLLERR|POLLHUP and returns ENODEV.
C3_FatalReported ==
    (life = "Open" /\ transport /\ obs.fatal /\ wpc = "exited"
       /\ ev # EvZero) =>
        \A avail0 \in BOOLEAN :
            /\ poll_revents(TRUE, avail0).ret = "ENODEV"
            /\ poll_revents(TRUE, avail0).revents = "POLLERR|POLLHUP"

\* C4 as claimed: every worker that has ceased to exist, including one ended
\* by stop, has written the sentinel exactly once.
C4_SentinelOncePerWorker ==
    wpc \in {"exited", "cancelled"} => obs.sentinels = 1

\* C4: the sentinel is written exactly once by a worker that leaves its loop
\* by itself, as its last action, and never by a worker that still runs or
\* that was ended by stop's cancellation.
C4_SentinelOnOwnExit ==
    obs.sentinels = IF wpc = "exited" THEN 1 ELSE 0

\* the worker has left by itself and its sentinel is on event_fd
C4_Witness ==
    life = "Open" /\ wpc = "exited" /\ obs.sentinels = 1 /\ SentinelMask(ev)

\* capture: the worker's handling of a FIFO hang-up has left it waiting with
\* no FIFO, and the daemon has the transport again
C5_DetachedAfterHangup ==
    /\ life = "Open" /\ stream = "CAPTURE" /\ io_state = "RUNNING"
    /\ wpc = "wait_pcm_fd" /\ obs.hup /\ pcm_fd = -1 /\ link_up

\* C5: after a FIFO hang-up on a capture stream the worker re-opens the
\* transport and, once the transport is available again, eventually has a
\* FIFO to transfer from (unless the link goes away again or the application
\* sets the remote device itself).
C5_HangupRecovers ==
    C5_DetachedAfterHangup ~> (pcm_fd # -1 \/ ~link_up \/ ~obs.hup)

\* C6: after close has returned, from any lifecycle state, the worker has
\* terminated and none of the stream's descriptors is open.
C6_CloseLeavesNothing ==
    life = "Closed" => (nworkers = 0 /\ openfds = {})

\* C7 as claimed: after every period iteration, an under-run included, the
\* published io_ptr is below buffer_size and the published io_hw_ptr is
\* below the boundary.
C7_PublishedInRange ==
    (life = "Open" /\ wpc = "notify") =>
        (io_ptr < w_buffer_size /\ io_hw_ptr < w_hw_boundary)

\* C7: after every period iteration the published io_hw_ptr is below the
\* boundary, and the published io_ptr is below buffer_size or, after an
\* under-run on playback, the marker (snd_pcm_uframes_t)-1.
C7_InRangeOrMarker ==
    (life = "Open" /\ wpc = "notify") =>
        /\ io_hw_ptr < w_hw_boundary
        /\ \/ io_ptr < w_buffer_size
           \/ stream = "PLAYBACK" /\ io_ptr = InvalidPtr

\* an iteration that moved a period has published its pointers
C7_Witness ==
    /\ life = "Open" /\ wpc = "notify" /\ io_ptr = w_io_ptr /\ io_ptr # InvalidPtr
    /\ io_hw_ptr = w_hw_ptr /\ io_hw_ptr > 0

\* C8 as claimed: in every iteration the io_ptr the worker publishes is a
\* whole number of periods, modulo buffer_size, away from the one it found.
C8_WholePeriods ==
    (life = "Open" /\ wpc = "notify") =>
        ((w_io_ptr - w_base) % w_buffer_size) % w_period = 0

\* C8: an iteration that starts inside the buffer and meets no under-run
\* publishes the io_ptr it found advanced, modulo buffer_size, by
\* min(period_size, buffer_size - io_ptr): a whole period, or the shorter
\* leftover at the end of a buffer that holds a fractional number of periods.
C8_PeriodOrLeftover ==
    (life = "Open" /\ wpc = "notify" /\ w_io_ptr # InvalidPtr
       /\ w_base < w_buffer_size) =>
        /\ w_io_ptr < w_buffer_size
        /\ (w_io_ptr - w_base) % w_buffer_size =
               Min(w_period, w_buffer_size - w_base) % w_buffer_size

\* the leftover chunk of a 5-frame buffer with 2-frame periods
C8_Witness ==
    /\ life = "Open" /\ wpc = "notify" /\ w_base < w_buffer_size
    /\ w_buffer_size - w_base < w_period /\ w_io_ptr = 0

\* C9: the worker's under-run test agrees with the wraparound-aware order: the
\* consumer committing one more period, within the room of the buffer, never
\* puts hw_ptr ahead of appl_ptr, so it never turns the test of the iteration
\* in progress from "no under-run" into "under-run".
C9_UnderrunIffAhead ==
    [][(ConsumerWrite /\ wpc = "playback" /\ io_state = "RUNNING"
          /\ w_hw_boundary = io_hw_boundary
          /\ ~UnderRun(w_hw_ptr, appl_ptr))
        => ~UnderRun(w_hw_ptr, appl_ptr')]_vars

\* C10: every change of the monitor's snd_fd is made by a thread that holds
\* transport_mutex, and is followed by exactly one notification write to
\* client_event_fd.
C10_ChangeLockedAndNotified ==
    mon.last.valid => (mon.last.locked /\ mon.last.writes = 1)

\* C11: a refresh attaches only to a transport whose own type is the bound
\* profile, whose own stream is capture or duplex, and whose own address is the
\* bound address.
C11_AttachesOwnMatch ==
    (mon.life = "Open" /\ mon.snd_fd # -1) =>
        /\ mon.att.addr = mon.addr
        /\ mon.att.type = mon.type
        /\ mon.att.stream \in {"CAPTURE", "DUPLEX"}

\* C12: the refresh that attaches (snd_fd goes from -1 to a descriptor) leaves
\* one unit on client_event_fd, so client_event_fd is readable after it.
C12_AttachPutsOneUnit ==
    [][(mon.snd_fd = -1 /\ mon'.snd_fd # -1) => mon'.cev]_vars

\* C13: no open FIFO descriptor is left unreferenced: every FIFO descriptor the
\* process holds is the handle's snd_fd, also after set_device on a bound and
\* attached monitor.
C13_NoFifoUnreferenced ==
    mon.life = "Open" => mon.fifos \subseteq {mon.snd_fd}

\* C14: bluezalsa_readi returns to its caller only after a successful read
\* from snd_fd.
C14_ReturnsOnlyWithData ==
    mon.readi \in {"none", "data"}

\* C15: after bluezalsa_close has returned, the monitor thread is gone and the
\* FIFO of the transport that was attached at that moment is closed.
C15_CloseClosesAll ==
    mon.life = "Closed" =>
        /\ mon.mpc \in {"exited", "cancelled"}
        /\ mon.snd_fd \notin mon.fifos

\* C16: every call of the pause callback the host can make on a stream with a
\* transport, with enable 1 or 0 and whether or not the daemon accepts the
\* request, writes one unit to event_fd, and every pause(0) signals the worker.
C16_PauseAlwaysBumps ==
    \A enable \in {0, 1}, pauseOk \in BOOLEAN :
        (life = "Open" /\ transport
           /\ io_state = (IF enable = 1 THEN "RUNNING" ELSE "PAUSED")) =>
            /\ pause(enable, pauseOk).bump
            /\ (enable = 0 => pause(enable, pauseOk).signal)

\* C17: a call of set_remote_device that returns EINVAL (invalid address or
\* invalid profile) leaves the stored address, type, profile and interface,
\* and the daemon connection and FIFO, as they were.
C17_InvalidLeavesUnchanged ==
    [][(bluealsa_proxy_set_remote_device_any /\ dev'.einval) =>
          /\ dev'.addr = dev.addr
          /\ dev'.type = dev.type
          /\ dev'.profile = dev.profile
          /\ dev'.interface = dev.interface
          /\ UNCHANGED connvars]_vars

\* C18: stop twice is stop once: a stop that returns leaves the stream stopped
\* (io_started false, state SETUP), and a stop on a stream that is already
\* stopped changes nothing: no flag, no thread, no state, no descriptor.
C18_StopTwiceIsStopOnce ==
    [][bluealsa_proxy_stop =>
         /\ life' = "Open" => (~io_started' /\ io_state' = "SETUP")
         /\ (~io_started /\ io_state = "SETUP") => UNCHANGED vars]_vars

\* a first stop has cancelled and joined the worker; a second stop may follow
C18_Witness ==
    /\ life = "Open" /\ io_state = "SETUP" /\ ~io_started
    /\ joined /\ wpc = "cancelled"

\* C19: bluezalsa_set_device with a null address on a monitor that is already
\* detached (no bound address, snd_fd = -1) leaves every field of the handle
\* as it was.
C19_NullOnDetachedIsNoop ==
    [][(bluezalsa_set_device /\ mon.addr = "NULL" /\ mon.snd_fd = -1
          /\ mon'.addr = "NULL")
        => mon' = mon]_vars

\* C20: the worker's wait for the resume signal never ends while the stream is
\* Paused, Prepared or XRun: when sigwait returns and the worker goes on to
\* move a period, the state is none of these.
C20_ResumeOnlyWhenRunning ==
    [][io_thread_sigwait => io_state' \notin {"PAUSED", "PREPARED", "XRUN"}]_vars

\* C21 as stated: the worker is at the point where it publishes io_ptr and
\* hw_ptr only after it has moved a complete period (nothing is left of len).
C21_PublishAfterWholePeriod ==
    (life = "Open" /\ wpc = "sync") => w_len = 0

\* C21: every step of the worker that changes the published io_ptr or hw_ptr
\* is the publication at sync, made after a complete period has been moved or
\* after a playback iteration found an under-run before moving anything; an
\* iteration that ends with a partial transfer (read returning 0, a fatal read
\* or write error) changes neither.
C21_PublishOnlyWhenDone ==
    [][((io_ptr' # io_ptr \/ io_hw_ptr' # io_hw_ptr)
          /\ wpc' # wpc /\ life' = "Open")
        => (wpc = "sync" /\ (w_len = 0 \/ w_io_ptr = InvalidPtr))]_vars

\* a whole period has been moved and published
C21_Witness ==
    /\ life = "Open" /\ wpc = "notify"
    /\ w_frames > 0 /\ w_len = 0 /\ w_io_ptr # InvalidPtr
    /\ io_ptr = w_io_ptr /\ io_hw_ptr = w_hw_ptr

\* C22: an iteration that moved no frames (the whole of len is left when the
\* worker publishes) does not advance the published hw_ptr.
C22_NoAdvanceWithoutFrames ==
    [][(io_thread_sync /\ w_frames > 0 /\ w_len = w_frames)
        => io_hw_ptr' = io_hw_ptr]_vars

\* C23: the worker writes 1 to event_fd for a period only from the position
\* after sync, and the step that takes it there has stored io_ptr and hw_ptr
\* of that period without writing to event_fd: the event write comes after
\* both publications.
C23_EventAfterPublish ==
    [][/\ (wpc' = "notify" /\ wpc # "notify") =>
             (io_ptr' = w_io_ptr /\ io_hw_ptr' = w_hw_ptr /\ ev' = ev)
       /\ (ev' # ev /\ wpc' = "loop" /\ wpc # "loop") => wpc = "notify"]_vars

\* the worker has moved a period that does not end at 0 and is about to write
\* the event
C23_Witness ==
    /\ life = "Open" /\ wpc = "notify" /\ w_len = 0 /\ w_frames > 0
    /\ w_io_ptr # 0 /\ w_hw_ptr # 0 /\ w_base # 0
    /\ io_ptr = w_io_ptr /\ io_hw_ptr = w_hw_ptr

\* C24: with a live worker, on capture and on playback: while pcm_fd is -1 the
\* worker is not in the period loop and issues no read or write on the FIFO.
C24_NoFifoNoPeriodLoop ==
    (life = "Open" /\ WorkerLive /\ pcm_fd = -1) =>
        wpc \notin {"loop", "sigwait", "load", "capture", "playback",
                    "sync", "notify"}

\* C25: the worker's publication never overwrites a change of the published
\* pointers made by a callback during the iteration: when the worker stores
\* its locals, io_ptr and hw_ptr still hold what the iteration loaded.
C25_NoLostUpdate ==
    [][io_thread_sync =>
         /\ io_ptr = w_base
         /\ AdvanceHwPtr(io_hw_ptr, w_frames, w_hw_boundary) = w_hw_ptr]_vars

\* C26: io_started implies that a live worker thread exists.
C26_StartedHasWorker ==
    (life = "Open" /\ io_started) => WorkerLive


\* C27: transport_mutex is released on every return path of
\* update_device_attach_state: the mutex is owned only by a thread that is
\* between the lock and the return of that function, so a later set_device,
\* refresh or close can acquire it
C27_MutexReleased ==
    (mon.life = "Open" /\ mon.mutex # "free") => MonPc(mon.mutex) = "locked"


\* C28: with two streams in the process, the reconnect a worker runs after a
\* hang-up closes and re-opens the connection of that worker's own stream
\* only, and it can always be run: it never finds the_pcm NULL or freed
\* because the other stream was closed
C28_ReconnectOwnStream ==
    /\ pcms.crashed # "reconnect"
    /\ pcms.last.by = pcms.last.on

\* C29: whatever number of progress writes has piled up unread in the
\* counter of event_fd, the mask test of poll_revents selects the fatal
\* branch only when the worker's sentinel is part of the counter
C29_FatalOnlySentinel == SentinelMask(evc.counter) => evc.sentinel

=============================================================================
